---- MODULE Spec2Model ----
(***************************************************************************)
(* Model of the bulk song import of the worship-ready API:                 *)
(* POST /songs/bulk of src/server.js, together with the earlier variant of *)
(* the same handler in src/unnamed/part_000 (always strict, threshold 0.8, *)
(* reporting `database` / `payload` as the conflict source).               *)
(*                                                                         *)
(* JavaScript values are records [t, s]: t is the type tag and s the text  *)
(* of the value (the characters of a string, the JSON text of an object).  *)
(* Numbers that are similarity scores or thresholds are kept in            *)
(* hundredths, scores as exact fractions <<numerator, denominator>>.       *)
(* The provenance fields of a row (created_at, created_by, ...) take no    *)
(* part in any decision of the handler and are left out of the rows.       *)
(***************************************************************************)
EXTENDS Integers, Sequences, FiniteSets, TLC

(***************************************************************************)
(* Bounds of the model                                                     *)
(***************************************************************************)
\* longest payload built freely from the record universe
MaxLen == 3
\* the long payloads hold MaxChunks * BATCH + 1 records
MaxChunks == 2
\* longest payload of each of two concurrent requests
MaxTwoLen == 2
\* most slides in the presentations table
MaxSlides == 3
\* server.js:274   const BATCH = 500;
BATCH == 500
\* server.js:590   Date.now() - 48 * 60 * 60 * 1000, in hours
RetentionHours == 48

\* the requests the model has room for; Spec runs the first one alone
Reqs == {1, 2}

(***************************************************************************)
(* JavaScript values                                                       *)
(***************************************************************************)
Undefined == [t |-> "undefined", s |-> ""]
Null == [t |-> "null", s |-> ""]
Str(text) == [t |-> "string", s |-> text]
Obj(text) == [t |-> "object", s |-> text]

\* ToBoolean: undefined, null and "" are falsy; every object (also [] and {})
\* is truthy.
Truthy(v) == \/ v.t = "object"
             \/ v.t = "string" /\ v.s # ""

\* a || b
OrElse(a, b) == IF Truthy(a) THEN a ELSE b

\* a ?? b
Coalesce(a, b) == IF a.t \in {"undefined", "null"} THEN b ELSE a

(***************************************************************************)
(* The characters of the texts the model uses (TLC cannot index a string). *)
(***************************************************************************)
Chars(text) ==
  CASE text = "Amazing Grace" ->
         <<"A","m","a","z","i","n","g"," ","G","r","a","c","e">>
    [] text = "Amazing Grase" ->
         <<"A","m","a","z","i","n","g"," ","G","r","a","s","e">>
    [] text = "Amazing Krase" ->
         <<"A","m","a","z","i","n","g"," ","K","r","a","s","e">>
    [] text = "AmazingGrace" ->
         <<"A","m","a","z","i","n","g","G","r","a","c","e">>
    [] text = "[1]" -> <<"[","1","]">>
    [] text = "[]" -> <<"[","]">>
    [] text = "{}" -> <<"{","}">>
    [] text = "{oops" -> <<"{","o","o","p","s">>
    [] text = "null" -> <<"n","u","l","l">>
    [] text = "0.8" -> <<"0",".","8">>
    [] text = "0.5" -> <<"0",".","5">>
    [] text = "1.5" -> <<"1",".","5">>
    [] text = "-1" -> <<"-","1">>
    [] text = "abc" -> <<"a","b","c">>
    [] text = "" -> <<>>

(***************************************************************************)
(* stringSimilarity.compareTwoStrings: the Dice coefficient of the bigrams *)
(* of the two strings, white space removed.                                *)
(***************************************************************************)
RECURSIVE StripSpaces(_)
StripSpaces(cs) ==
  IF cs = <<>> THEN <<>>
  ELSE IF Head(cs) = " " THEN StripSpaces(Tail(cs))
       ELSE <<Head(cs)>> \o StripSpaces(Tail(cs))

Bigrams(cs) == [k \in 1..(Len(cs) - 1) |-> <<cs[k], cs[k + 1]>>]

Count(bs, g) == Cardinality({k \in DOMAIN bs : bs[k] = g})

Min(a, b) == IF a <= b THEN a ELSE b

RECURSIVE SumOver(_, _, _)
SumOver(S, bs1, bs2) ==
  IF S = {} THEN 0
  ELSE LET g == CHOOSE x \in S : TRUE
       IN  Min(Count(bs1, g), Count(bs2, g)) + SumOver(S \ {g}, bs1, bs2)

\* number of bigrams of the second string matched, each bigram of the first
\* being used at most once
IntersectionSize(bs1, bs2) ==
  SumOver({bs1[k] : k \in DOMAIN bs1}, bs1, bs2)

\* the score as the fraction <<numerator, denominator>>
DiceOfChars(first, second) ==
  IF first = second THEN <<1, 1>>
  ELSE IF Len(first) < 2 \/ Len(second) < 2 THEN <<0, 1>>
  ELSE <<2 * IntersectionSize(Bigrams(first), Bigrams(second)),
         Len(first) + Len(second) - 2>>

NameTexts == {"Amazing Grace", "Amazing Grase", "Amazing Krase", "AmazingGrace"}

ScoreTable ==
  [a \in NameTexts |->
     [b \in NameTexts |->
        DiceOfChars(StripSpaces(Chars(a)), StripSpaces(Chars(b)))]]

compareTwoStrings(a, b) == ScoreTable[a][b]

(***************************************************************************)
(* parseFloat and the clamp of the threshold, in hundredths.               *)
(***************************************************************************)
NaN == -100000

Digits == {"0","1","2","3","4","5","6","7","8","9"}

DigitVal(c) ==
  CASE c = "0" -> 0 [] c = "1" -> 1 [] c = "2" -> 2 [] c = "3" -> 3
    [] c = "4" -> 4 [] c = "5" -> 5 [] c = "6" -> 6 [] c = "7" -> 7
    [] c = "8" -> 8 [] c = "9" -> 9

\* the number of digits of cs from position k on
RECURSIVE DigitRun(_, _)
DigitRun(cs, k) ==
  IF k <= Len(cs) /\ cs[k] \in Digits THEN 1 + DigitRun(cs, k + 1) ELSE 0

\* the value of the n digits of cs from position k on
RECURSIVE DigitsValue(_, _, _)
DigitsValue(cs, k, n) ==
  IF n = 0 THEN 0
  ELSE 10 * DigitsValue(cs, k, n - 1) + DigitVal(cs[k + n - 1])

\* parseFloat of a text with at most two fraction digits, in hundredths:
\* the longest numeric prefix, NaN when there is none
parseFloat(text) ==
  LET cs == Chars(text)
      neg == cs # <<>> /\ cs[1] = "-"
      p == IF neg THEN 2 ELSE 1
      ni == DigitRun(cs, p)
      dot == p + ni <= Len(cs) /\ cs[p + ni] = "."
      nf == IF dot THEN DigitRun(cs, p + ni + 1) ELSE 0
      whole == DigitsValue(cs, p, ni)
      frac == IF nf = 0 THEN 0
              ELSE IF nf = 1 THEN 10 * DigitsValue(cs, p + ni + 1, 1)
              ELSE DigitsValue(cs, p + ni + 1, 2)
      mag == 100 * whole + frac
  IN  IF ni = 0 /\ nf = 0 THEN NaN
      ELSE IF neg THEN 0 - mag ELSE mag

\* Math.min and Math.max return NaN when an argument is NaN
MathMin(a, b) == IF a = NaN \/ b = NaN THEN NaN ELSE IF a <= b THEN a ELSE b
MathMax(a, b) == IF a = NaN \/ b = NaN THEN NaN ELSE IF a >= b THEN a ELSE b

\* score >= threshold, false when the threshold is NaN
ScoreGeq(score, threshold) ==
  /\ threshold # NaN
  /\ score[1] * 100 >= threshold * score[2]

(***************************************************************************)
(* JSON.parse of the texts the model uses, and asObj.                      *)
(***************************************************************************)
\* a text JSON.parse accepts: null, or a bracketed array / object
JsonWellFormed(cs) ==
  \/ cs = <<"n","u","l","l">>
  \/ /\ Len(cs) >= 2
     /\ \/ cs[1] = "[" /\ cs[Len(cs)] = "]"
        \/ cs[1] = "{" /\ cs[Len(cs)] = "}"

JsonThrows(v) == v.t = "string" /\ ~JsonWellFormed(Chars(v.s))

JsonParse(text) == IF text = "null" THEN Null ELSE Obj(text)

\* const asObj = (v) => (typeof v === "string" ? JSON.parse(v) : v);
asObj(v) == IF v.t = "string" THEN JsonParse(v.s) ELSE v

(***************************************************************************)
(* Inputs: payload elements, bodies and query strings.                     *)
(***************************************************************************)
Element(name, alias, main, mainAlias, st) ==
  [t |-> "object", song_name |-> name, songName |-> alias,
   main_stanza |-> main, mainStanza |-> mainAlias, stanzas |-> st]

Content == Obj("[1]")

\* {song_name: "Amazing Grace", main_stanza: [1], stanzas: [1]}
RecGrace == Element(Str("Amazing Grace"), Undefined, Content, Undefined, Content)
\* {songName: "Amazing Grase", mainStanza: [1], stanzas: "[1]"}
RecGrase == Element(Undefined, Str("Amazing Grase"), Undefined, Content, Str("[1]"))
\* {song_name: "Amazing Krase", main_stanza: [1], stanzas: [1]}
RecKrase == Element(Str("Amazing Krase"), Undefined, Content, Undefined, Content)
\* {main_stanza: [1], stanzas: [1]}
RecNoName == Element(Undefined, Undefined, Content, Undefined, Content)
\* {song_name: "Amazing Krase", main_stanza: null, stanzas: [1]}
RecNoMain == Element(Str("Amazing Krase"), Undefined, Null, Undefined, Content)
\* {song_name: "Amazing Grace", main_stanza: [1]}
RecNoStanzas == Element(Str("Amazing Grace"), Undefined, Content, Undefined, Undefined)
\* {song_name: "AmazingGrace", main_stanza: [1], stanzas: []}
RecEmptyStanzas == Element(Str("AmazingGrace"), Undefined, Content, Undefined, Obj("[]"))
\* {song_name: "Amazing Grase", main_stanza: "{oops", stanzas: [1]}
RecBadJson == Element(Str("Amazing Grase"), Undefined, Str("{oops"), Undefined, Content)
\* {}
RecEmpty == Element(Undefined, Undefined, Undefined, Undefined, Undefined)
\* null
RecNull == [RecEmpty EXCEPT !.t = "null"]

Records == {RecGrace, RecGrase, RecKrase, RecNoName, RecNoMain, RecNoStanzas,
            RecEmptyStanzas, RecBadJson, RecEmpty, RecNull}

\* req.body: an array, or an object whose `songs` is an array, is absent
\* or is something else
ArrayBody(items) == [t |-> "array", songs |-> "undefined", items |-> items]
WrappedBody(items) == [t |-> "object", songs |-> "array", items |-> items]
ObjectBody(songs) == [t |-> "object", songs |-> songs, items |-> <<>>]

\* payloads longer than one chunk: a pattern repeated
LongLen == MaxChunks * BATCH + 1
LongPatterns == {<<RecGrace>>, <<RecGrace, RecNoStanzas>>}
LongItems(p) == [k \in 1..LongLen |-> p[((k - 1) % Len(p)) + 1]]

\* req.query
Query(a, sim) == [allowSimilar |-> a, similarity |-> sim]
DefaultQuery == Query(Undefined, Undefined)
Queries == {DefaultQuery,
            Query(Str("true"), Str("0.5")),
            Query(Str("1"), Undefined),
            Query(Str("false"), Undefined),
            Query(Str("false"), Str("0.5")),
            Query(Str("false"), Str("1.5")),
            Query(Str("false"), Str("-1")),
            Query(Str("false"), Str("abc"))}

\* the two variants of the handler in the repository
Builds == {"server.js", "part_000"}

\* rows of the songs table
SongRow(id, name, main, st) ==
  [song_id |-> id, song_name |-> name, main_stanza |-> main, stanzas |-> st]
InitialSongs == {<<>>, <<SongRow(1, Str("Amazing Grace"), Content, Content)>>}

(***************************************************************************)
(* State                                                                   *)
(***************************************************************************)
VARIABLES
  build,          \* which variant of the handler is deployed
  songs,          \* the songs table, in insertion order
  nextId,         \* the next value of the song_id sequence
  pc,             \* position of each request's handler
  body,           \* req.body
  query,          \* req.query
  payload,        \* the payload array (after the payload check)
  existingNames,  \* names of the snapshot
  acceptedNames,  \* names accepted so far in this batch
  allowSimilar,   \* the control computed from the query
  similarity,     \* the threshold computed from the query, in hundredths
  results,        \* the outcome list
  toInsert,       \* the accepted records, {index, row}
  i,              \* scan position (0-based index of the next record)
  off,            \* offset of the chunk being inserted
  createdCount,
  response,       \* what res.status(..).json(..) sent
  fetchCalls,     \* number of snapshot reads issued
  fetchReply,     \* how the snapshot read ended: "none", "ok" or "error"
  insertCalls,    \* the chunks submitted to insert, in order
  insertReplies,  \* how each insert ended, in order: "ok" or "error"
  presentations,  \* the presentations table: its slides
  sweepPc,        \* position of each running cleanup sweep
  twoDaysAgo,     \* the cutoff of each sweep, in hours
  staleNames,     \* the presentation names each sweep deletes
  timers          \* the delays of the pending setTimeout calls, in ms

dbVars == <<songs, nextId>>
inputVars == <<body, query, payload>>
scanVars == <<existingNames, acceptedNames, allowSimilar, similarity, toInsert, i>>
outVars == <<results, off, createdCount, response>>
callVars == <<fetchCalls, fetchReply, insertCalls, insertReplies>>
\* the two callers of deleteOldPresentationsCompletely: the startup code and
\* the timer callback
Sweeps == {"startup", "timer"}

sweepVars == <<presentations, sweepPc, twoDaysAgo, staleNames, timers>>
bulkVars == <<dbVars, pc, inputVars, scanVars, outVars, callVars>>
vars == <<build, bulkVars, sweepVars>>

(***************************************************************************)
(* Responses                                                               *)
(***************************************************************************)
NoSummary ==
  [requested |-> 0, created |-> 0, skipped_conflict |-> 0, invalid |-> 0,
   failed |-> 0]

NoResponse == [status |-> 0, error |-> "", summary |-> NoSummary, results |-> <<>>]

\* function jsonError(res, status, message)
jsonError(status, message) ==
  [status |-> status, error |-> message, summary |-> NoSummary, results |-> <<>>]

\* err.message || "Database error"
sbAssert(err) ==
  jsonError(500, IF err.message # "" THEN err.message ELSE "Database error")

BodyError == "Body must be a non-empty array or { songs: [...] }"
FetchError == [message |-> "snapshot read failed"]
InsertError == [message |-> "insert failed"]
ParseErrorMessage == "Unexpected token o in JSON"
NullErrorMessage == "Cannot read properties of null"

\* catch (e) { return jsonError(res, 500, e.message || "Bulk insert failed") }
CatchResponse(message) ==
  jsonError(500, IF message # "" THEN message ELSE "Bulk insert failed")

(***************************************************************************)
(* Outcome records                                                         *)
(***************************************************************************)
NoThreshold == -1

Outcome(index, name, status, reason, conflictWith, threshold, id) ==
  [index |-> index, song_name |-> name, status |-> status, reason |-> reason,
   conflictWith |-> conflictWith, similarityThreshold |-> threshold,
   song_id |-> id]

InvalidOutcome(index, name) ==
  Outcome(index, name, "invalid", "Missing fields", "", NoThreshold, 0)

\* the failed outcome pushed under a status the summary does not count
FailedOutcomeAsError(c, err) ==
  Outcome(c.index, c.row.song_name, "error", err.message, "", NoThreshold, 0)

FailedOutcome(c, err) ==
  Outcome(c.index, c.row.song_name, "failed", err.message, "", NoThreshold, 0)

\* the created outcome indexed by the returned row instead of the record
CreatedOutcomeByRow(c, d) ==
  Outcome(d.song_id, d.song_name, "created", "", "", NoThreshold, d.song_id)

CreatedOutcome(c, d) ==
  Outcome(c.index, d.song_name, "created", "", "", NoThreshold, d.song_id)

(***************************************************************************)
(* The handler, step by step                                               *)
(***************************************************************************)
\* const payload = Array.isArray(req.body) ? req.body : req.body?.songs;
PayloadOf(b) ==
  IF b.t = "array" THEN [isArray |-> TRUE, items |-> b.items]
  ELSE IF b.songs = "array" THEN [isArray |-> TRUE, items |-> b.items]
  ELSE [isArray |-> FALSE, items |-> <<>>]

\* the payload check without its length test
PayloadRejectedNoLength(p) == ~p.isArray

\* if (!Array.isArray(payload) || payload.length === 0)
PayloadRejected(p) == ~p.isArray \/ Len(p.items) = 0

\* the control with its default turned around
AllowSimilarDefaultFalse(b, q) ==
  IF b = "server.js" THEN Coalesce(q.allowSimilar, Str("false")) = Str("true")
  ELSE FALSE

\* const allowSimilar = (req.query.allowSimilar ?? "true") === "true";
\* part_000 has no such control: it always checks
AllowSimilarOf(b, q) ==
  IF b = "server.js" THEN Coalesce(q.allowSimilar, Str("true")) = Str("true")
  ELSE FALSE

\* const similarity = Math.max(0, Math.min(1, parseFloat(req.query.similarity ?? "0.8")));
\* part_000 compares with the literal 0.8
SimilarityOf(b, q) ==
  IF b = "server.js"
  THEN MathMax(0, MathMin(100, parseFloat(Coalesce(q.similarity, Str("0.8")).s)))
  ELSE 80

\* const song_name = raw.song_name || raw.songName;
NameOf(raw) == OrElse(raw.song_name, raw.songName)
\* const main_stanza = raw.main_stanza ?? raw.mainStanza;
MainOf(raw) == Coalesce(raw.main_stanza, raw.mainStanza)

\* the validation without its stanzas test
MissingFieldsNoStanzas(raw) == ~Truthy(NameOf(raw)) \/ ~Truthy(MainOf(raw))

\* the validation also refusing an empty stanzas collection
MissingFieldsOrEmpty(raw) ==
  \/ ~Truthy(NameOf(raw)) \/ ~Truthy(MainOf(raw)) \/ ~Truthy(raw.stanzas)
  \/ raw.stanzas \in {Obj("[]"), Obj("{}")}

\* if (!song_name || !main_stanza || !stanzas)
MissingFields(raw) ==
  ~Truthy(NameOf(raw)) \/ ~Truthy(MainOf(raw)) \/ ~Truthy(raw.stanzas)

\* names.some((n) => compareTwoStrings(song_name, n) >= similarity)
\* the comparison with its threshold lost: every name scores at least 0
SomeSimilarAnyScore(name, names, threshold) ==
  \E k \in DOMAIN names : ScoreGeq(compareTwoStrings(name, names[k]), 0)

SomeSimilar(name, names, threshold) ==
  \E k \in DOMAIN names : ScoreGeq(compareTwoStrings(name, names[k]), threshold)

\* the similarity check against the names of the batch alone
BlockedAcceptedOnly(allow, threshold, name, existing, accepted) ==
  ~allow /\ SomeSimilar(name, accepted, threshold)

\* the similarity check against the snapshot alone
BlockedSnapshotOnly(allow, threshold, name, existing, accepted) ==
  ~allow /\ SomeSimilar(name, existing, threshold)

\* blockedBySimilarity
Blocked(allow, threshold, name, existing, accepted) ==
  /\ ~allow
  /\ \/ SomeSimilar(name, existing, threshold)
     \/ SomeSimilar(name, accepted, threshold)

\* the skipped_conflict outcome always naming the database
SkippedOutcomeDatabase(b, index, name, threshold, existing) ==
  Outcome(index, name, "skipped_conflict", "", "database", NoThreshold, 0)

\* the skipped_conflict outcome of the deployed variant
SkippedOutcome(b, index, name, threshold, existing) ==
  IF b = "server.js"
  THEN Outcome(index, name, "skipped_conflict", "", "similarity", threshold, 0)
  ELSE Outcome(index, name, "skipped_conflict", "",
               IF SomeSimilar(name.s, existing, threshold) THEN "database"
               ELSE "payload",
               NoThreshold, 0)

\* the row built from an accepted record
RowOf(raw) ==
  [song_name |-> NameOf(raw), main_stanza |-> asObj(MainOf(raw)),
   stanzas |-> asObj(raw.stanzas)]

\* the slice taking one record of the next chunk along
ChunkAtOverlap(list, offset) ==
  SubSeq(list, offset + 1, Min(offset + BATCH + 1, Len(list)))

\* the slice without its end
ChunkAtToEnd(list, offset) == SubSeq(list, offset + 1, Len(list))

\* toInsert.slice(off, off + BATCH)
ChunkAt(list, offset) == SubSeq(list, offset + 1, Min(offset + BATCH, Len(list)))

\* the results left in the order they were pushed
SortByIndexPushOrder(rs) == rs

\* results.sort((a, b) => a.index - b.index)
SortByIndex(rs) == SortSeq(rs, LAMBDA a, b : a.index < b.index)

CountStatus(rs, status) == Cardinality({k \in DOMAIN rs : rs[k].status = status})

\* the response with its status chosen by the number of outcomes
ProcessedAnyOutcome(p, rs, created) ==
  LET sorted == SortByIndex(rs)
  IN  [status |-> IF Len(rs) > 0 THEN 201 ELSE 200,
       error |-> "",
       summary |-> [requested |-> Len(p.items),
                    created |-> created,
                    skipped_conflict |-> CountStatus(sorted, "skipped_conflict"),
                    invalid |-> CountStatus(sorted, "invalid"),
                    failed |-> CountStatus(sorted, "failed")],
       results |-> sorted]

\* the summary and the status of a processed batch
Processed(p, rs, created) ==
  LET sorted == SortByIndex(rs)
  IN  [status |-> IF created > 0 THEN 201 ELSE 200,
       error |-> "",
       summary |-> [requested |-> Len(p.items),
                    created |-> created,
                    skipped_conflict |-> CountStatus(sorted, "skipped_conflict"),
                    invalid |-> CountStatus(sorted, "invalid"),
                    failed |-> CountStatus(sorted, "failed")],
       results |-> sorted]

\* the songs table rejects a row with a null column
RowAcceptable(row) ==
  /\ row.song_name.t # "null"
  /\ row.main_stanza.t # "null"
  /\ row.stanzas.t # "null"

\* every row of the chunk is acceptable
RowsAcceptable(chunk) == {k \in DOMAIN chunk : ~RowAcceptable(chunk[k].row)} = {}

\* the rows an insert of `chunk` creates, in the order submitted
InsertedRows(chunk, firstId) ==
  [k \in DOMAIN chunk |->
     SongRow(firstId + k - 1, chunk[k].row.song_name, chunk[k].row.main_stanza,
             chunk[k].row.stanzas)]

\* the body b arrives with the query q: payload check, then the snapshot
\* read is issued
Receive(r, b, q) ==
  /\ pc[r] = "idle"
  /\ build = "part_000" => q = DefaultQuery
  /\ body' = [body EXCEPT ![r] = b]
  /\ query' = [query EXCEPT ![r] = q]
  /\ payload' = [payload EXCEPT ![r] = PayloadOf(b)]
  /\ IF PayloadRejected(PayloadOf(b))
     THEN /\ response' = [response EXCEPT ![r] = jsonError(400, BodyError)]
          /\ pc' = [pc EXCEPT ![r] = "done"]
          /\ UNCHANGED fetchCalls
     ELSE /\ fetchCalls' = [fetchCalls EXCEPT ![r] = @ + 1]
          /\ pc' = [pc EXCEPT ![r] = "awaitFetch"]
          /\ UNCHANGED response
  /\ UNCHANGED <<build, sweepVars, dbVars, scanVars, results, off, createdCount, fetchReply,
                 insertCalls, insertReplies>>

\* the snapshot read fails and the handler goes on after answering
FetchErrContinue(r) ==
  /\ pc[r] = "awaitFetch"
  /\ fetchReply' = [fetchReply EXCEPT ![r] = "error"]
  /\ response' = [response EXCEPT ![r] = sbAssert(FetchError)]
  /\ pc' = [pc EXCEPT ![r] = "scan"]
  /\ UNCHANGED <<build, sweepVars, dbVars, inputVars, scanVars, results, off, createdCount,
                 fetchCalls, insertCalls, insertReplies>>

\* the snapshot read fails: if (fetchErr) return sbAssert(res, fetchErr)
FetchErr(r) ==
  /\ pc[r] = "awaitFetch"
  /\ fetchReply' = [fetchReply EXCEPT ![r] = "error"]
  /\ response' = [response EXCEPT ![r] = sbAssert(FetchError)]
  /\ pc' = [pc EXCEPT ![r] = "done"]
  /\ UNCHANGED <<build, sweepVars, dbVars, inputVars, scanVars, results, off, createdCount,
                 fetchCalls, insertCalls, insertReplies>>

\* the snapshot read returns: the locals of the scan are set
FetchOk(r) ==
  /\ pc[r] = "awaitFetch"
  /\ existingNames' =
       [existingNames EXCEPT ![r] = [k \in DOMAIN songs |-> songs[k].song_name.s]]
  /\ allowSimilar' = [allowSimilar EXCEPT ![r] = AllowSimilarOf(build, query[r])]
  /\ similarity' = [similarity EXCEPT ![r] = SimilarityOf(build, query[r])]
  /\ fetchReply' = [fetchReply EXCEPT ![r] = "ok"]
  /\ pc' = [pc EXCEPT ![r] = "scan"]
  /\ UNCHANGED <<build, sweepVars, dbVars, inputVars, acceptedNames, toInsert, i, outVars,
                 fetchCalls, insertCalls, insertReplies>>

\* after the scan the first two chunks are submitted together
AfterScanTwoAtOnce(r, rs, list) ==
  IF list = <<>>
  THEN /\ response' = [response EXCEPT ![r] = Processed(payload[r], rs, 0)]
       /\ pc' = [pc EXCEPT ![r] = "done"]
       /\ UNCHANGED insertCalls
  ELSE /\ insertCalls' = [insertCalls EXCEPT ![r] =
                            Append(Append(@, ChunkAt(list, 0)), ChunkAt(list, BATCH))]
       /\ pc' = [pc EXCEPT ![r] = "awaitInsert"]
       /\ UNCHANGED response

\* what follows the scan loop, given the lists it produced: nothing to insert
\* and the response is sent, or the first chunk is submitted
AfterScan(r, rs, list) ==
  IF list = <<>>
  THEN /\ response' = [response EXCEPT ![r] = Processed(payload[r], rs, 0)]
       /\ pc' = [pc EXCEPT ![r] = "done"]
       /\ UNCHANGED insertCalls
  ELSE /\ insertCalls' = [insertCalls EXCEPT ![r] = Append(@, ChunkAt(list, 0))]
       /\ pc' = [pc EXCEPT ![r] = "awaitInsert"]
       /\ UNCHANGED response

\* one iteration of the scan loop completed with results rs and toInsert list
ScanAdvance(r, rs, list) ==
  /\ results' = [results EXCEPT ![r] = rs]
  /\ toInsert' = [toInsert EXCEPT ![r] = list]
  /\ i' = [i EXCEPT ![r] = @ + 1]
  /\ IF i[r] + 1 < Len(payload[r].items)
     THEN UNCHANGED <<pc, response, insertCalls>>
     ELSE AfterScan(r, rs, list)

\* an exception leaves the handler through its catch
ScanThrow(r, message) ==
  /\ response' = [response EXCEPT ![r] = CatchResponse(message)]
  /\ pc' = [pc EXCEPT ![r] = "done"]
  /\ UNCHANGED <<results, toInsert, i, acceptedNames, insertCalls>>

\* for (let i = 0; i < payload.length; i++) { ... }: one iteration
ScanRecord(r) ==
  /\ pc[r] = "scan"
  /\ LET raw == payload[r].items[i[r] + 1]
         name == NameOf(raw)
     IN  IF raw.t = "null"
         THEN ScanThrow(r, NullErrorMessage)
         ELSE IF MissingFields(raw)
         THEN /\ ScanAdvance(r, Append(results[r], InvalidOutcome(i[r], name)),
                             toInsert[r])
              /\ UNCHANGED acceptedNames
         ELSE IF Blocked(allowSimilar[r], similarity[r], name.s,
                         existingNames[r], acceptedNames[r])
         THEN /\ ScanAdvance(r,
                             Append(results[r],
                                    SkippedOutcome(build, i[r], name, similarity[r],
                                                   existingNames[r])),
                             toInsert[r])
              /\ UNCHANGED acceptedNames
         ELSE IF JsonThrows(MainOf(raw)) \/ JsonThrows(raw.stanzas)
         THEN ScanThrow(r, ParseErrorMessage)
         ELSE /\ ScanAdvance(r, results[r],
                             Append(toInsert[r], [index |-> i[r], row |-> RowOf(raw)]))
              /\ acceptedNames' = [acceptedNames EXCEPT ![r] = Append(@, name.s)]
  /\ UNCHANGED <<build, sweepVars, dbVars, inputVars, existingNames, allowSimilar, similarity,
                 off, createdCount, fetchCalls, fetchReply, insertReplies>>

\* what follows one iteration of the chunk loop: the next chunk is submitted,
\* or the results are sorted and the response is sent
AfterChunk(r, rs, created) ==
  /\ results' = [results EXCEPT ![r] = rs]
  /\ createdCount' = [createdCount EXCEPT ![r] = created]
  /\ off' = [off EXCEPT ![r] = @ + BATCH]
  /\ IF off[r] + BATCH < Len(toInsert[r])
     THEN /\ insertCalls' =
               [insertCalls EXCEPT ![r] = Append(@, ChunkAt(toInsert[r], off[r] + BATCH))]
          /\ UNCHANGED <<pc, response>>
     ELSE /\ response' = [response EXCEPT ![r] = Processed(payload[r], rs, created)]
          /\ pc' = [pc EXCEPT ![r] = "done"]
          /\ UNCHANGED insertCalls

\* the insert leaves out the rows whose name the table already holds, and
\* still returns every row
InsertOkUnique(r) ==
  /\ pc[r] = "awaitInsert"
  /\ LET chunk == ChunkAt(toInsert[r], off[r])
         data == InsertedRows(chunk, nextId)
     IN  /\ RowsAcceptable(chunk)
         /\ insertReplies' = [insertReplies EXCEPT ![r] = Append(@, "ok")]
         /\ songs' = songs \o SelectSeq(data,
                       LAMBDA d : {m \in DOMAIN songs :
                                     songs[m].song_name = d.song_name} = {})
         /\ nextId' = nextId + Len(data)
         /\ AfterChunk(r,
                       results[r] \o [k \in 1..Len(data) |-> CreatedOutcome(chunk[k], data[k])],
                       createdCount[r] + Len(data))
  /\ UNCHANGED <<build, sweepVars, inputVars, scanVars, fetchCalls, fetchReply>>

\* the insert of the current chunk succeeds and returns the created rows
InsertOk(r) ==
  /\ pc[r] = "awaitInsert"
  /\ LET chunk == ChunkAt(toInsert[r], off[r])
         data == InsertedRows(chunk, nextId)
     IN  /\ RowsAcceptable(chunk)
         /\ insertReplies' = [insertReplies EXCEPT ![r] = Append(@, "ok")]
         /\ songs' = songs \o data
         /\ nextId' = nextId + Len(data)
         /\ AfterChunk(r,
                       results[r] \o [k \in 1..Len(data) |-> CreatedOutcome(chunk[k], data[k])],
                       createdCount[r] + Len(data))
  /\ UNCHANGED <<build, sweepVars, inputVars, scanVars, fetchCalls, fetchReply>>

\* the insert of the current chunk succeeds but the table keeps only some of
\* the rows (a row-level trigger drops the others) and returns those: the
\* k-th returned row is paired with the k-th record of the chunk
InsertOkSome(r) ==
  /\ pc[r] = "awaitInsert"
  /\ LET chunk == ChunkAt(toInsert[r], off[r])
         all == InsertedRows(chunk, nextId)
     IN  /\ RowsAcceptable(chunk)
         /\ \E kept \in (SUBSET DOMAIN chunk) \ {DOMAIN chunk} :
              LET data == SelectSeq(all, LAMBDA d : d.song_id - nextId + 1 \in kept)
              IN  /\ songs' = songs \o data
                  /\ AfterChunk(r,
                                results[r] \o [k \in 1..Len(data) |->
                                                 CreatedOutcome(chunk[k], data[k])],
                                createdCount[r] + Len(data))
         /\ nextId' = nextId + Len(chunk)
         /\ insertReplies' = [insertReplies EXCEPT ![r] = Append(@, "some")]
  /\ UNCHANGED <<build, sweepVars, inputVars, scanVars, fetchCalls, fetchReply>>

\* the insert of the current chunk fails: every record of the chunk is failed
InsertErr(r) ==
  /\ pc[r] = "awaitInsert"
  /\ LET chunk == ChunkAt(toInsert[r], off[r])
     IN  AfterChunk(r,
                    results[r] \o [k \in DOMAIN chunk |-> FailedOutcome(chunk[k], InsertError)],
                    createdCount[r])
  /\ insertReplies' = [insertReplies EXCEPT ![r] = Append(@, "error")]
  /\ UNCHANGED <<build, sweepVars, dbVars, inputVars, scanVars, fetchCalls, fetchReply>>

(***************************************************************************)
(* Specifications: one request against the songs table                     *)
(***************************************************************************)
\* no request is in flight
RequestsIdle ==
  /\ pc = [r \in Reqs |-> "idle"]
  /\ body = [r \in Reqs |-> ObjectBody("undefined")]
  /\ query = [r \in Reqs |-> DefaultQuery]
  /\ payload = [r \in Reqs |-> PayloadOf(ObjectBody("undefined"))]
  /\ existingNames = [r \in Reqs |-> <<>>]
  /\ acceptedNames = [r \in Reqs |-> <<>>]
  /\ allowSimilar = [r \in Reqs |-> TRUE]
  /\ similarity = [r \in Reqs |-> 0]
  /\ results = [r \in Reqs |-> <<>>]
  /\ toInsert = [r \in Reqs |-> <<>>]
  /\ i = [r \in Reqs |-> 0]
  /\ off = [r \in Reqs |-> 0]
  /\ createdCount = [r \in Reqs |-> 0]
  /\ response = [r \in Reqs |-> NoResponse]
  /\ fetchCalls = [r \in Reqs |-> 0]
  /\ fetchReply = [r \in Reqs |-> "none"]
  /\ insertCalls = [r \in Reqs |-> <<>>]
  /\ insertReplies = [r \in Reqs |-> <<>>]

\* no sweep is running and the presentations table is empty
SweepIdle(table) ==
  /\ presentations = table
  /\ sweepPc = [w \in Sweeps |-> "idle"]
  /\ twoDaysAgo = [w \in Sweeps |-> 0]
  /\ staleNames = [w \in Sweeps |-> {}]
  /\ timers = <<>>

Init ==
  /\ build \in Builds
  /\ songs \in InitialSongs
  /\ nextId = Len(songs) + 1
  /\ RequestsIdle
  /\ SweepIdle({})

\* a request arrives whose body is an array of at most n records
ReceiveArray(r, n) ==
  /\ pc[r] = "idle"
  /\ \E k \in 0..n : \E items \in [1..k -> Records], q \in Queries :
       Receive(r, ArrayBody(items), q)

\* a request arrives whose body wraps an array of at most n records
ReceiveWrapped(r, n) ==
  /\ pc[r] = "idle"
  /\ \E k \in 0..n : \E items \in [1..k -> Records], q \in Queries :
       Receive(r, WrappedBody(items), q)

\* a request arrives whose body is an object without an array under `songs`
ReceiveObject(r) ==
  /\ pc[r] = "idle"
  /\ \E sg \in {"undefined", "string"}, q \in Queries :
       Receive(r, ObjectBody(sg), q)

\* a request arrives whose payload is longer than MaxChunks chunks
ReceiveLong(r) ==
  /\ pc[r] = "idle"
  /\ \E p \in LongPatterns : Receive(r, ArrayBody(LongItems(p)), DefaultQuery)

\* one request with a payload of at most MaxLen records, any query
Next ==
  \/ ReceiveArray(1, MaxLen)
  \/ ReceiveWrapped(1, 1)
  \/ ReceiveObject(1)
  \/ FetchErr(1)
  \/ FetchOk(1)
  \/ ScanRecord(1)
  \/ InsertOk(1)
  \/ InsertErr(1)

Spec == Init /\ [][Next]_vars

\* one request with a payload of more than MaxChunks chunks
NextLong ==
  \/ ReceiveLong(1)
  \/ FetchErr(1)
  \/ FetchOk(1)
  \/ ScanRecord(1)
  \/ InsertOk(1)
  \/ InsertErr(1)

SpecLong == Init /\ [][NextLong]_vars

\* a request arrives with at most n records named alike, strict or permissive
ReceiveTwo(r, n) ==
  /\ pc[r] = "idle"
  /\ \E k \in 1..n : \E items \in [1..k -> {RecGrace, RecGrase}],
                        q \in {DefaultQuery, Query(Str("false"), Undefined)} :
       Receive(r, ArrayBody(items), q)

\* two requests in flight against the same songs table: the handler is async
\* and every await lets the other request run
NextTwo ==
  \E r \in Reqs :
    \/ ReceiveTwo(r, MaxTwoLen)
    \/ FetchErr(r)
    \/ FetchOk(r)
    \/ ScanRecord(r)
    \/ InsertOk(r)
    \/ InsertErr(r)

SpecTwo == Init /\ [][NextTwo]_vars

\* a request arrives with at most n records, strict or permissive
ReceiveRows(r, n) ==
  /\ pc[r] = "idle"
  /\ \E k \in 1..n : \E items \in [1..k -> {RecGrace, RecGrase, RecKrase, RecNoStanzas}],
                        q \in {DefaultQuery, Query(Str("false"), Undefined)} :
       Receive(r, ArrayBody(items), q)

\* one request against a table that may return fewer rows than submitted
NextRows ==
  \/ ReceiveRows(1, MaxLen)
  \/ FetchErr(1)
  \/ FetchOk(1)
  \/ ScanRecord(1)
  \/ InsertOk(1)
  \/ InsertOkSome(1)
  \/ InsertErr(1)

SpecRows == Init /\ [][NextRows]_vars

(***************************************************************************)
(* The cleanup sweep deleteOldPresentationsCompletely. Times are in hours. *)
(***************************************************************************)
Slide(name, created) == [presentation_name |-> name, created_datetime |-> created]

PresentationNames == {"A", "B"}
CreatedTimes == {1, 2, 3}
\* Date.now() when a sweep starts
Nows == {50, 51}

\* the presentations tables of at most MaxSlides slides
Tables ==
  {t \in SUBSET {Slide(n, c) : n \in PresentationNames, c \in CreatedTimes} :
     Cardinality(t) <= MaxSlides}

\* .select(...).lt("created_datetime", twoDaysAgoISO)
OldRows(table, cutoff) == {s \in table : s.created_datetime < cutoff}

\* groups.get(name): the latest created_datetime among the rows of data
GroupMax(data, name) ==
  LET times == {s.created_datetime : s \in {d \in data : d.presentation_name = name}}
  IN  CHOOSE m \in times : \A t \in times : t <= m

\* [...groups.entries()].filter(([, maxCreated]) => maxCreated < twoDaysAgo)
StaleNamesOf(data, cutoff) ==
  {name \in {d.presentation_name : d \in data} : GroupMax(data, name) < cutoff}

\* deleteOldPresentationsCompletely is entered by caller w: the cutoff is
\* computed and the select is issued (the clock does not run backwards)
StartSweep(w, now) ==
  /\ \A v \in Sweeps : twoDaysAgo[v] <= now - RetentionHours
  /\ twoDaysAgo' = [twoDaysAgo EXCEPT ![w] = now - RetentionHours]
  /\ staleNames' = [staleNames EXCEPT ![w] = {}]
  /\ sweepPc' = [sweepPc EXCEPT ![w] = "awaitSelect"]
  /\ UNCHANGED <<build, bulkVars, presentations>>

\* the time of day, in ms, at which scheduleRandomCleanup may run
DayMs == 86400000
HourMs == 3600000
TimesOfDay == {0, 12 * HourMs, DayMs - 1}
\* Math.floor(Math.random() * 24)
RandomHours == {0, 12, 23}

\* nextRun - now, with nextRun the next day at randomHour:00:00.000
DelayOf(timeOfDay, randomHour) == (DayMs - timeOfDay) + randomHour * HourMs

\* scheduleRandomCleanup(): one setTimeout call
scheduleRandomCleanup ==
  \E t \in TimesOfDay, h \in RandomHours : timers' = Append(timers, DelayOf(t, h))

\* deleteOldPresentationsCompletely returns to caller w: the timer callback
\* goes on to scheduleRandomCleanup(), the startup code awaits nothing
Returned(w) ==
  IF w = "timer" THEN scheduleRandomCleanup ELSE UNCHANGED timers

\* one sweep alone, as the startup code calls it
SweepStart(now) ==
  /\ sweepPc["startup"] = "idle"
  /\ StartSweep("startup", now)
  /\ UNCHANGED timers

\* if (error) { console.error(...); return; }
SweepQueryErr(w) ==
  /\ sweepPc[w] = "awaitSelect"
  /\ sweepPc' = [sweepPc EXCEPT ![w] = "done"]
  /\ Returned(w)
  /\ UNCHANGED <<build, bulkVars, presentations, twoDaysAgo, staleNames>>

\* the select returns: the groups are built, and the delete is issued unless
\* no name is stale
SweepQueryOk(w) ==
  /\ sweepPc[w] = "awaitSelect"
  /\ LET stale == StaleNamesOf(OldRows(presentations, twoDaysAgo[w]), twoDaysAgo[w])
     IN  /\ staleNames' = [staleNames EXCEPT ![w] = stale]
         /\ IF stale = {}
              THEN sweepPc' = [sweepPc EXCEPT ![w] = "done"] /\ Returned(w)
              ELSE sweepPc' = [sweepPc EXCEPT ![w] = "awaitDelete"] /\ UNCHANGED timers
  /\ UNCHANGED <<build, bulkVars, presentations, twoDaysAgo>>

\* .delete().in("presentation_name", staleNames)
SweepDeleteOk(w) ==
  /\ sweepPc[w] = "awaitDelete"
  /\ presentations' =
       {s \in presentations : s.presentation_name \notin staleNames[w]}
  /\ sweepPc' = [sweepPc EXCEPT ![w] = "done"]
  /\ Returned(w)
  /\ UNCHANGED <<build, bulkVars, twoDaysAgo, staleNames>>

\* if (del.error) console.error(...)
SweepDeleteErr(w) ==
  /\ sweepPc[w] = "awaitDelete"
  /\ sweepPc' = [sweepPc EXCEPT ![w] = "done"]
  /\ Returned(w)
  /\ UNCHANGED <<build, bulkVars, presentations, twoDaysAgo, staleNames>>

InitCleanup ==
  /\ build \in Builds
  /\ songs = <<>>
  /\ nextId = 1
  /\ RequestsIdle
  /\ \E table \in Tables : SweepIdle(table)

\* one sweep over a presentations table
NextCleanup ==
  \/ \E now \in Nows : SweepStart(now)
  \/ SweepQueryErr("startup")
  \/ SweepQueryOk("startup")
  \/ SweepDeleteOk("startup")
  \/ SweepDeleteErr("startup")

SpecCleanup == InitCleanup /\ [][NextCleanup]_vars

(***************************************************************************)
(* The scheduler: the startup code and scheduleRandomCleanup.  A pending   *)
(* timeout fires once its delay has elapsed.  The sweep carries no timeout *)
(* of its own; its awaits are taken to return within the hour, so only a   *)
(* timeout of less than an hour can fire while the startup sweep runs.     *)
(***************************************************************************)
\* deleteOldPresentationsCompletely(); scheduleRandomCleanup();
Startup ==
  /\ sweepPc["startup"] = "idle"
  /\ \E now \in Nows : StartSweep("startup", now)
  /\ scheduleRandomCleanup

\* setTimeout's callback runs: await deleteOldPresentationsCompletely()
TimerFire ==
  /\ timers # <<>>
  /\ Head(timers) < HourMs \/ sweepPc["startup"] \notin {"awaitSelect", "awaitDelete"}
  /\ \E now \in Nows : StartSweep("timer", now)
  /\ timers' = Tail(timers)

NextScheduler ==
  \/ Startup
  \/ TimerFire
  \/ \E w \in Sweeps : SweepQueryErr(w)
  \/ \E w \in Sweeps : SweepQueryOk(w)
  \/ \E w \in Sweeps : SweepDeleteOk(w)
  \/ \E w \in Sweeps : SweepDeleteErr(w)

SpecScheduler == InitCleanup /\ [][NextScheduler]_vars

(***************************************************************************)
(* Vocabulary of the properties                                            *)
(***************************************************************************)
Items(r) == payload[r].items

\* the positions of rs holding an outcome for input index j
EntriesFor(rs, j) == {k \in DOMAIN rs : rs[k].index = j}

\* the input indices accepted for insertion
Submitted(r) == {toInsert[r][k].index : k \in DOMAIN toInsert[r]}

\* the batch was processed to its {summary, results} response
ProcessedResponse(r) == pc[r] = "done" /\ response[r].status \in {200, 201}

\* the request left the handler through its catch
Aborted(r) ==
  pc[r] = "done" /\ fetchReply[r] = "ok" /\ response[r].status = 500

Absent(v) == v.t \in {"undefined", "null"}

\* a record without a name, a primary content block or stanzas
LacksField(raw) ==
  \/ Absent(raw.song_name) /\ Absent(raw.songName)
  \/ Absent(raw.main_stanza) /\ Absent(raw.mainStanza)
  \/ Absent(raw.stanzas)

\* the content of a field, when it is serialized text, fails to decode
Undecodable(v) == v.t = "string" /\ v.s \notin {"[1]", "[]", "{}", "null"}

HasUndecodable(raw) ==
  \/ Undecodable(raw.main_stanza)
  \/ Undecodable(raw.mainStanza)
  \/ Undecodable(raw.stanzas)

\* a record the validator has nothing against
ValidRecord(raw) == raw.t = "object" /\ ~LacksField(raw)

\* a valid record whose content is structured or decodes
WellFormed(raw) == ValidRecord(raw) /\ ~HasUndecodable(raw)

DeclaredName(raw) ==
  IF ~Absent(raw.song_name) THEN raw.song_name.s ELSE raw.songName.s

\* the score of two names is at least t hundredths
NearDuplicate(a, b, t) ==
  LET score == compareTwoStrings(a, b) IN score[1] * 100 >= t * score[2]

\* strict mode with a numeric threshold
Strict(r) ==
  pc[r] \in {"scan", "awaitInsert", "done"} /\ fetchReply[r] = "ok"
    /\ ~allowSimilar[r] /\ similarity[r] \in 0..100

\* the name at index j is a near-duplicate of a snapshot name
ConflictsWithSnapshot(r, j) ==
  \E k \in DOMAIN existingNames[r] :
    NearDuplicate(DeclaredName(Items(r)[j + 1]), existingNames[r][k], similarity[r])

\* the name at index j is a near-duplicate of a name accepted before it
ConflictsWithAccepted(r, j) ==
  \E k \in DOMAIN toInsert[r] :
    /\ toInsert[r][k].index < j
    /\ NearDuplicate(DeclaredName(Items(r)[j + 1]), toInsert[r][k].row.song_name.s,
                     similarity[r])

(***************************************************************************)
(* C1: every non-empty list payload whose snapshot was read gets a         *)
(* response whose results hold each input index 0..len-1 exactly once,     *)
(* whether the chunk inserts succeed or fail.                              *)
(***************************************************************************)
C1_OneOutcomePerIndex ==
  \A r \in Reqs :
    (pc[r] = "done" /\ fetchReply[r] = "ok" /\ Len(Items(r)) > 0)
      => /\ Len(response[r].results) = Len(Items(r))
         /\ \A j \in 0..(Len(Items(r)) - 1) :
              Cardinality(EntriesFor(response[r].results, j)) = 1

(***************************************************************************)
(* C2: in a processed batch every chunk was submitted and answered; the    *)
(* records of a chunk whose insert failed are `failed`, the records of a   *)
(* chunk whose insert succeeded are `created`, and no other record is      *)
(* `failed`.  While a reply is awaited exactly one chunk is outstanding,   *)
(* also after a failure.                                                   *)
(***************************************************************************)
RECURSIVE RepliedSize(_, _, _)
\* the number of records in the first n chunks of r whose reply is `reply`
RepliedSize(r, n, reply) ==
  IF n = 0 THEN 0
  ELSE RepliedSize(r, n - 1, reply)
         + (IF insertReplies[r][n] = reply THEN Len(insertCalls[r][n]) ELSE 0)

C2_ChunkFailureIsolation ==
  \A r \in Reqs :
    /\ pc[r] = "awaitInsert" => Len(insertCalls[r]) = Len(insertReplies[r]) + 1
    /\ ProcessedResponse(r) =>
         LET rs == response[r].results
             n == Len(insertCalls[r])
         IN  /\ Len(insertReplies[r]) = n
             /\ n * BATCH >= Len(toInsert[r])
             /\ \A c \in 1..n : \A m \in DOMAIN insertCalls[r][c] :
                  LET rec == insertCalls[r][c][m]
                  IN  /\ rec.index + 1 \in DOMAIN rs
                      /\ rs[rec.index + 1].index = rec.index
                      /\ rs[rec.index + 1].status =
                           (IF insertReplies[r][c] = "error" THEN "failed"
                            ELSE "created")
             /\ Cardinality({k \in DOMAIN rs : rs[k].status = "failed"})
                  = RepliedSize(r, n, "error")
             /\ Cardinality({k \in DOMAIN rs : rs[k].status = "created"})
                  = RepliedSize(r, n, "ok")

\* a failed chunk followed by a chunk that was inserted
C2_Witness ==
  \E r \in Reqs :
    /\ ProcessedResponse(r)
    /\ \E c, d \in DOMAIN insertReplies[r] :
         /\ c < d
         /\ insertReplies[r][c] = "error"
         /\ insertReplies[r][d] = "ok"
         /\ response[r].results[insertCalls[r][c][1].index + 1].status = "failed"
         /\ response[r].results[insertCalls[r][d][1].index + 1].status = "created"

(***************************************************************************)
(* C3: a record whose content is serialized text that fails to decode gets *)
(* an `invalid` or `failed` outcome of its own; the request is not aborted *)
(* and every record of the batch has an outcome.                           *)
(***************************************************************************)
C3_DecodeFailureIsPerRecord ==
  \A r \in Reqs :
    (pc[r] = "done" /\ fetchReply[r] = "ok")
      => \A j \in 0..(Len(Items(r)) - 1) :
           (Items(r)[j + 1].t = "object" /\ HasUndecodable(Items(r)[j + 1]))
             => /\ response[r].status \in {200, 201}
                /\ Len(response[r].results) = Len(Items(r))
                /\ \E k \in EntriesFor(response[r].results, j) :
                     response[r].results[k].status \in {"invalid", "failed"}

(***************************************************************************)
(* C4: in strict mode with threshold T, a well-formed record the scan has  *)
(* passed whose name scores >= T against a snapshot name or a name         *)
(* accepted before it is skipped and never created; one that scores < T    *)
(* against all of them is accepted for insertion.                          *)
(***************************************************************************)
C4_StrictThreshold ==
  \A r \in Reqs :
    Strict(r) =>
      \A j \in 0..(i[r] - 1) :
        WellFormed(Items(r)[j + 1]) =>
          IF ConflictsWithSnapshot(r, j) \/ ConflictsWithAccepted(r, j)
          THEN /\ j \notin Submitted(r)
               /\ \A k \in EntriesFor(results[r], j) :
                    results[r][k].status = "skipped_conflict"
               /\ \A k \in EntriesFor(response[r].results, j) :
                    response[r].results[k].status = "skipped_conflict"
          ELSE j \in Submitted(r)

\* a processed strict batch with a record skipped for a name of the payload
\* and a later record accepted
C4_Witness ==
  \E r \in Reqs :
    /\ Strict(r) /\ ProcessedResponse(r)
    /\ \E j, k \in 0..(Len(Items(r)) - 1) :
         /\ j < k
         /\ WellFormed(Items(r)[j + 1]) /\ WellFormed(Items(r)[k + 1])
         /\ ConflictsWithAccepted(r, j) /\ ~ConflictsWithSnapshot(r, j)
         /\ response[r].results[j + 1].status = "skipped_conflict"
         /\ ~ConflictsWithAccepted(r, k) /\ ~ConflictsWithSnapshot(r, k)
         /\ response[r].results[k + 1].status = "created"

(***************************************************************************)
(* C5 as stated: in strict mode, of two near-duplicate names of the        *)
(* payload that do not conflict with the snapshot, the one with the        *)
(* smaller index is accepted and the later one is `skipped_conflict` with  *)
(* conflictWith "payload".                                                 *)
(***************************************************************************)
\* a < b are scanned well-formed records with near-duplicate names, neither
\* conflicting with the snapshot
NearDuplicatePair(r, a, b) ==
  /\ a < b /\ b < i[r]
  /\ WellFormed(Items(r)[a + 1]) /\ WellFormed(Items(r)[b + 1])
  /\ NearDuplicate(DeclaredName(Items(r)[a + 1]), DeclaredName(Items(r)[b + 1]),
                   similarity[r])
  /\ ~ConflictsWithSnapshot(r, a) /\ ~ConflictsWithSnapshot(r, b)

C5_SmallerIndexWinsPayload ==
  \A r \in Reqs :
    Strict(r) =>
      \A a, b \in 0..(i[r] - 1) :
        NearDuplicatePair(r, a, b) =>
          /\ a \in Submitted(r)
          /\ EntriesFor(results[r], b) # {}
          /\ \A k \in EntriesFor(results[r], b) :
               /\ results[r][k].status = "skipped_conflict"
               /\ results[r][k].conflictWith = "payload"

(***************************************************************************)
(* C5 as amended: when moreover the earlier record conflicts with no name  *)
(* accepted before it, the earlier one is accepted and the later one is    *)
(* `skipped_conflict`; server.js reports conflictWith "similarity" and     *)
(* echoes the threshold, part_000 reports conflictWith "payload".          *)
(***************************************************************************)
C5_SmallerIndexWins ==
  \A r \in Reqs :
    Strict(r) =>
      \A a, b \in 0..(i[r] - 1) :
        (NearDuplicatePair(r, a, b) /\ ~ConflictsWithAccepted(r, a)) =>
          /\ a \in Submitted(r)
          /\ b \notin Submitted(r)
          /\ Cardinality(EntriesFor(results[r], b)) = 1
          /\ \A k \in EntriesFor(results[r], b) :
               /\ results[r][k].status = "skipped_conflict"
               /\ build = "server.js" =>
                    /\ results[r][k].conflictWith = "similarity"
                    /\ results[r][k].similarityThreshold = similarity[r]
               /\ build = "part_000" => results[r][k].conflictWith = "payload"

\* a processed strict batch whose first record is created and whose second,
\* a near-duplicate of it, is skipped
C5_Witness ==
  \E r \in Reqs :
    /\ Strict(r) /\ ProcessedResponse(r)
    /\ Len(Items(r)) >= 2
    /\ NearDuplicatePair(r, 0, 1)
    /\ response[r].results[1].status = "created"
    /\ response[r].results[2].status = "skipped_conflict"

(***************************************************************************)
(* C6 as stated: in permissive mode (the default), when all records of a   *)
(* non-empty payload are valid, the batch is answered with                 *)
(* summary.created = summary.requested and no `skipped_conflict` result.   *)
(***************************************************************************)
\* the similarity check is switched off: server.js with allowSimilar absent
\* or "true" (part_000 has no such switch)
Permissive(r) ==
  build = "server.js" /\ query[r].allowSimilar \in {Undefined, Str("true")}

AllValid(r) ==
  Len(Items(r)) > 0 /\ \A j \in DOMAIN Items(r) : ValidRecord(Items(r)[j])

NoneSkipped(r) ==
  \A k \in DOMAIN response[r].results :
    response[r].results[k].status # "skipped_conflict"

C6_PermissiveCreatesAll ==
  \A r \in Reqs :
    (ProcessedResponse(r) /\ Permissive(r) /\ AllValid(r))
      => /\ response[r].summary.created = response[r].summary.requested
         /\ NoneSkipped(r)

(***************************************************************************)
(* C6 as amended: in permissive mode, a request with a non-empty payload   *)
(* of valid records never reports `skipped_conflict`; when every chunk     *)
(* insert succeeded summary.created = summary.requested = the payload      *)
(* length, and the records of a chunk whose insert failed are missing from *)
(* summary.created; the request is answered without a summary only when    *)
(* the snapshot read failed or a record's content is undecodable text.     *)
(***************************************************************************)
FailedChunkRecords(r) ==
  Cardinality({k \in DOMAIN response[r].results :
                 response[r].results[k].status = "failed"})

C6_PermissiveNeverSkips ==
  \A r \in Reqs :
    (pc[r] = "done" /\ Permissive(r) /\ AllValid(r))
      => /\ NoneSkipped(r)
         /\ ~ProcessedResponse(r) =>
              /\ response[r].status = 500
              /\ \/ fetchReply[r] = "error"
                 \/ \E j \in DOMAIN Items(r) : HasUndecodable(Items(r)[j])
         /\ ProcessedResponse(r) =>
              /\ response[r].summary.requested = Len(Items(r))
              /\ response[r].summary.created + FailedChunkRecords(r) = Len(Items(r))
              /\ (\A c \in DOMAIN insertReplies[r] : insertReplies[r][c] = "ok")
                   => response[r].summary.created = Len(Items(r))

\* a permissive batch of two records, the first a near-duplicate of a snapshot
\* name and the second of the first, both created
C6_Witness ==
  \E r \in Reqs :
    /\ ProcessedResponse(r) /\ AllValid(r) /\ Permissive(r)
    /\ Len(Items(r)) = 2
    /\ \E k \in DOMAIN existingNames[r] :
         NearDuplicate(DeclaredName(Items(r)[1]), existingNames[r][k], 80)
    /\ NearDuplicate(DeclaredName(Items(r)[1]), DeclaredName(Items(r)[2]), 80)
    /\ response[r].summary.created = 2
    /\ response[r].results[1].status = "created"
    /\ response[r].results[2].status = "created"

(***************************************************************************)
(* C7: a body that is an empty list, or neither a list nor an object       *)
(* wrapping a list under `songs`, is answered 400 with the structural      *)
(* error; no snapshot read and no insert is issued, no record is scanned   *)
(* and the response carries no outcomes.                                   *)
(***************************************************************************)
MalformedBody(b) ==
  \/ b.t = "array" /\ b.items = <<>>
  \/ b.t # "array" /\ b.songs # "array"

C7_MalformedBodyRejected ==
  \A r \in Reqs :
    (pc[r] # "idle" /\ MalformedBody(body[r]))
      => /\ pc[r] = "done"
         /\ response[r].status = 400
         /\ response[r].error = BodyError
         /\ response[r].results = <<>>
         /\ fetchCalls[r] = 0 /\ fetchReply[r] = "none"
         /\ insertCalls[r] = <<>>
         /\ i[r] = 0 /\ results[r] = <<>> /\ toInsert[r] = <<>>

\* an empty array was received and answered
C7_Witness ==
  \E r \in Reqs :
    pc[r] = "done" /\ body[r] = ArrayBody(<<>>) /\ response[r].status = 400

(***************************************************************************)
(* C8: when the snapshot read fails the request ends with a 500 carrying   *)
(* the error; no record was scanned into an outcome, no insert was issued  *)
(* and the songs table is as it was.                                       *)
(***************************************************************************)
C8_SnapshotFailureAborts ==
  \A r \in Reqs :
    fetchReply[r] = "error"
      => /\ pc[r] = "done"
         /\ response[r].status = 500
         /\ response[r].error = FetchError.message
         /\ response[r].results = <<>>
         /\ i[r] = 0 /\ results[r] = <<>> /\ toInsert[r] = <<>>
         /\ insertCalls[r] = <<>>
         /\ songs \in InitialSongs /\ nextId = Len(songs) + 1

\* the snapshot read of a batch of two records failed
C8_Witness ==
  \E r \in Reqs :
    fetchReply[r] = "error" /\ Len(Items(r)) = 2 /\ response[r].status = 500

(***************************************************************************)
(* C9: every record (an object) scanned that lacks a name under both       *)
(* spellings, a primary content block under both spellings, or stanzas has *)
(* the one outcome `invalid`, reason "Missing fields", and is not          *)
(* submitted; the scan never stops at such a record; a processed batch     *)
(* counts every invalid result in summary.invalid.                         *)
(***************************************************************************)
Lacking(r, j) == Items(r)[j + 1].t = "object" /\ LacksField(Items(r)[j + 1])

C9_MissingFieldsInvalid ==
  \A r \in Reqs :
    /\ \A j \in 0..(i[r] - 1) :
         Lacking(r, j) =>
           /\ j \notin Submitted(r)
           /\ Cardinality(EntriesFor(results[r], j)) = 1
           /\ \A k \in EntriesFor(results[r], j) :
                /\ results[r][k].status = "invalid"
                /\ results[r][k].reason = "Missing fields"
    /\ Aborted(r) => i[r] < Len(Items(r)) /\ ~Lacking(r, i[r])
    /\ ProcessedResponse(r) =>
         /\ i[r] = Len(Items(r))
         /\ \A j \in 0..(i[r] - 1) :
              Lacking(r, j) =>
                /\ response[r].results[j + 1].index = j
                /\ response[r].results[j + 1].status = "invalid"
                /\ response[r].results[j + 1].reason = "Missing fields"
         /\ response[r].summary.invalid =
              Cardinality({k \in DOMAIN response[r].results :
                             response[r].results[k].status = "invalid"})
         /\ response[r].summary.invalid >=
              Cardinality({j \in 0..(i[r] - 1) : Lacking(r, j)})

\* a processed batch with a record lacking a field, reported invalid, and a
\* later record created
C9_Witness ==
  \E r \in Reqs :
    /\ ProcessedResponse(r)
    /\ \E j, k \in 0..(Len(Items(r)) - 1) :
         /\ j < k
         /\ Lacking(r, j)
         /\ response[r].results[j + 1].status = "invalid"
         /\ response[r].results[k + 1].status = "created"
    /\ response[r].summary.invalid >= 1

(***************************************************************************)
(* C10 as stated: a scanned record whose stanzas is an empty list or an    *)
(* empty object is `invalid` and is not submitted for insertion.           *)
(***************************************************************************)
EmptyStanzas(r, j) ==
  Items(r)[j + 1].t = "object" /\ Items(r)[j + 1].stanzas \in {Obj("[]"), Obj("{}")}

C10_EmptyStanzasInvalid ==
  \A r \in Reqs :
    \A j \in 0..(i[r] - 1) :
      EmptyStanzas(r, j) =>
        /\ j \notin Submitted(r)
        /\ \E k \in EntriesFor(results[r], j) : results[r][k].status = "invalid"

(***************************************************************************)
(* C10 as amended: the validator tests that stanzas is present, not that   *)
(* it is non-empty: a scanned record without stanzas is `invalid` and not  *)
(* submitted, while a record with a name, a primary content block and an   *)
(* empty stanzas collection is never `invalid`: it is submitted for        *)
(* insertion unless the similarity check skips it.                         *)
(***************************************************************************)
C10_StanzasPresenceOnly ==
  \A r \in Reqs :
    \A j \in 0..(i[r] - 1) :
      /\ (Items(r)[j + 1].t = "object" /\ Absent(Items(r)[j + 1].stanzas)) =>
           /\ j \notin Submitted(r)
           /\ \E k \in EntriesFor(results[r], j) : results[r][k].status = "invalid"
      /\ (EmptyStanzas(r, j) /\ ~LacksField(Items(r)[j + 1])) =>
           /\ \A k \in EntriesFor(results[r], j) : results[r][k].status # "invalid"
           /\ \/ j \in Submitted(r)
              \/ \E k \in EntriesFor(results[r], j) :
                   results[r][k].status = "skipped_conflict"

\* a record with an empty stanzas collection was created
C10_Witness ==
  \E r \in Reqs :
    /\ ProcessedResponse(r)
    /\ \E j \in 0..(Len(Items(r)) - 1) :
         /\ EmptyStanzas(r, j)
         /\ response[r].results[j + 1].index = j
         /\ response[r].results[j + 1].status = "created"

(***************************************************************************)
(* C11: the threshold the scan uses is always a number in [0,1]: a         *)
(* supplied value below 0 becomes 0, one above 1 becomes 1, and a          *)
(* non-numeric one becomes 0 or 1.                                         *)
(***************************************************************************)
\* the threshold text the request supplied, "0.8" when it supplied none
SuppliedSimilarity(r) == Coalesce(query[r].similarity, Str("0.8")).s

C11_ThresholdInUnitInterval ==
  \A r \in Reqs :
    fetchReply[r] = "ok" =>
      /\ similarity[r] \in 0..100
      /\ build = "server.js" =>
           LET v == parseFloat(SuppliedSimilarity(r))
           IN  /\ (v # NaN /\ v < 0) => similarity[r] = 0
               /\ (v # NaN /\ v > 100) => similarity[r] = 100
               /\ (v # NaN /\ v \in 0..100) => similarity[r] = v

(***************************************************************************)
(* C12: a processed batch is answered 201 exactly when at least one record *)
(* is `created`, and 200 when every record is invalid, skipped or failed;  *)
(* both answers carry the summary and the results and no error.            *)
(***************************************************************************)
C12_StatusByCreated ==
  \A r \in Reqs :
    ProcessedResponse(r) =>
      LET rs == response[r].results
      IN  /\ response[r].status = 201 <=> CountStatus(rs, "created") > 0
          /\ response[r].status = 200 <=>
               \A k \in DOMAIN rs :
                 rs[k].status \in {"invalid", "skipped_conflict", "failed"}
          /\ response[r].error = ""
          /\ response[r].summary.requested = Len(Items(r))
          /\ response[r].summary.created = CountStatus(rs, "created")
          /\ Len(rs) = Len(Items(r))

\* a batch answered 201 with one record created and another one failed or
\* invalid
C12_Witness ==
  \E r \in Reqs :
    /\ ProcessedResponse(r) /\ response[r].status = 201
    /\ CountStatus(response[r].results, "created") = 1
    /\ CountStatus(response[r].results, "invalid") >= 1
    /\ Len(response[r].results) >= 2

(***************************************************************************)
(* C13: at every point of the scan acceptedNames holds exactly the names   *)
(* of the records scanned so far that passed validation and the similarity *)
(* check, in input order; an `invalid` or `skipped_conflict` record never  *)
(* adds its name.                                                          *)
(***************************************************************************)
\* the name passes the similarity check of request r against the snapshot
\* and the names in `before`
PassesSimilarity(r, name, before) ==
  \/ allowSimilar[r]
  \/ similarity[r] = NaN
  \/ /\ \A k \in DOMAIN existingNames[r] :
          ~NearDuplicate(name, existingNames[r][k], similarity[r])
     /\ \A k \in DOMAIN before : ~NearDuplicate(name, before[k], similarity[r])

\* the names of the first n records that pass validation and the check
RECURSIVE PassedNames(_, _)
PassedNames(r, n) ==
  IF n = 0 THEN <<>>
  ELSE LET before == PassedNames(r, n - 1)
           raw == Items(r)[n]
       IN  IF ValidRecord(raw) /\ PassesSimilarity(r, DeclaredName(raw), before)
           THEN Append(before, DeclaredName(raw))
           ELSE before

C13_AcceptedNamesExact ==
  \A r \in Reqs :
    fetchReply[r] = "ok" =>
      /\ acceptedNames[r] = PassedNames(r, i[r])
      /\ Len(acceptedNames[r]) = Len(toInsert[r])
      /\ \A k \in DOMAIN toInsert[r] :
           acceptedNames[r][k] = DeclaredName(Items(r)[toInsert[r][k].index + 1])
      /\ \A k \in DOMAIN results[r] :
           results[r][k].status \in {"invalid", "skipped_conflict"}
             => results[r][k].index \notin Submitted(r)

\* three records scanned in strict mode: one accepted, one skipped, one invalid
C13_Witness ==
  \E r \in Reqs :
    /\ Strict(r) /\ i[r] = 3
    /\ Len(acceptedNames[r]) = 1
    /\ CountStatus(results[r], "skipped_conflict") = 1
    /\ CountStatus(results[r], "invalid") = 1

(***************************************************************************)
(* C14: two concurrent strict requests are not serialized against each     *)
(* other: each checks names against its own snapshot and its own accepted  *)
(* names only, and every record it reports `created` is a row of its own   *)
(* in the songs table, also when the other request created the same name;  *)
(* so both can take their snapshot before either inserts, both accept the  *)
(* same new name and the table ends up holding it twice.                   *)
(***************************************************************************)
\* the rows of the songs table with this name
RowsNamed(name) == {m \in DOMAIN songs : songs[m].song_name.s = name}

\* the names request r reports as created
CreatedNames(r) ==
  {response[r].results[k].song_name.s :
     k \in {m \in DOMAIN response[r].results :
              response[r].results[m].status = "created"}}

C14_NoCrossRequestCheck ==
  /\ \A r \in Reqs :
       /\ (Strict(r) /\ i[r] >= 1 /\ WellFormed(Items(r)[1])
             /\ ~ConflictsWithSnapshot(r, 0)) => 0 \in Submitted(r)
       /\ ProcessedResponse(r) =>
            \A k \in DOMAIN response[r].results :
              response[r].results[k].status = "created" =>
                \E m \in DOMAIN songs :
                  /\ songs[m].song_id = response[r].results[k].song_id
                  /\ songs[m].song_name = response[r].results[k].song_name
  /\ \A m, n \in DOMAIN songs : songs[m].song_id = songs[n].song_id => m = n
  /\ (ProcessedResponse(1) /\ ProcessedResponse(2)) =>
       \A name \in CreatedNames(1) \cap CreatedNames(2) :
         Cardinality(RowsNamed(name)) >= 2

\* both strict requests read an empty snapshot, both created "Amazing Grace",
\* and the table holds the name twice
C14_Witness ==
  /\ Strict(1) /\ Strict(2)
  /\ ProcessedResponse(1) /\ ProcessedResponse(2)
  /\ existingNames[1] = <<>> /\ existingNames[2] = <<>>
  /\ "Amazing Grace" \in CreatedNames(1) \cap CreatedNames(2)
  /\ Cardinality(RowsNamed("Amazing Grace")) = 2

(***************************************************************************)
(* C15: within one request the snapshot is read exactly once, before the   *)
(* first record is scanned and before any insert; the chunk inserts are    *)
(* issued one at a time in chunk order, each after the previous one has    *)
(* returned; the response is sent after the last one has returned.         *)
(***************************************************************************)
C15_CallsInOrder ==
  \A r \in Reqs :
    /\ fetchCalls[r] <= 1
    /\ pc[r] = "awaitFetch" =>
         fetchCalls[r] = 1 /\ fetchReply[r] = "none" /\ i[r] = 0
           /\ results[r] = <<>> /\ insertCalls[r] = <<>>
    /\ (i[r] > 0 \/ results[r] # <<>> \/ insertCalls[r] # <<>>) =>
         fetchCalls[r] = 1 /\ fetchReply[r] = "ok"
    /\ insertCalls[r] # <<>> => i[r] = Len(Items(r))
    /\ Len(insertCalls[r]) =
         Len(insertReplies[r]) + (IF pc[r] = "awaitInsert" THEN 1 ELSE 0)
    /\ \A c \in DOMAIN insertCalls[r] :
         /\ insertCalls[r][c] # <<>>
         /\ (c - 1) * BATCH + 1 \in DOMAIN toInsert[r]
         /\ insertCalls[r][c][1] = toInsert[r][(c - 1) * BATCH + 1]
    /\ response[r] # NoResponse => pc[r] = "done"
    /\ ProcessedResponse(r) =>
         /\ Len(insertReplies[r]) = Len(insertCalls[r])
         /\ Len(insertCalls[r]) * BATCH >= Len(toInsert[r])

\* a processed request that read the snapshot once and issued one insert more
\* than MaxChunks
C15_Witness ==
  \E r \in Reqs :
    /\ ProcessedResponse(r)
    /\ fetchCalls[r] = 1
    /\ Len(insertCalls[r]) = MaxChunks + 1
    /\ Len(insertReplies[r]) = MaxChunks + 1

(***************************************************************************)
(* C16: the results of a processed response are the outcomes the handler   *)
(* collected, ordered by input index ascending, whatever the mix of        *)
(* invalid, skipped, created and failed outcomes and the order they were   *)
(* pushed in.                                                              *)
(***************************************************************************)
C16_ResultsAscending ==
  \A r \in Reqs :
    ProcessedResponse(r) =>
      LET rs == response[r].results
      IN  /\ \A k \in 1..(Len(rs) - 1) : rs[k].index <= rs[k + 1].index
          /\ Len(rs) = Len(results[r])
          /\ {rs[k] : k \in DOMAIN rs} = {results[r][k] : k \in DOMAIN results[r]}

\* a response of three outcomes, one invalid, one skipped and one created,
\* the created one pushed last although its index is the smallest
C16_Witness ==
  \E r \in Reqs :
    /\ ProcessedResponse(r)
    /\ Len(results[r]) = 3
    /\ results[r][3].index = 0 /\ results[r][3].status = "created"
    /\ CountStatus(results[r], "invalid") = 1
    /\ CountStatus(results[r], "skipped_conflict") = 1
    /\ response[r].results[1].index = 0

(***************************************************************************)
(* C17 as stated: after a successful chunk insert every submitted record   *)
(* of the chunk has exactly one `created` outcome, carrying its own index  *)
(* and the identifier of the row created from it, also when the table      *)
(* returns a number of rows different from the number submitted.           *)
(***************************************************************************)
\* the one outcome of the record is `created` and carries the identifier of
\* the row made from it
CreatedWithOwnRow(r, rec) ==
  /\ Cardinality(EntriesFor(results[r], rec.index)) = 1
  /\ \A k \in EntriesFor(results[r], rec.index) :
       /\ results[r][k].status = "created"
       /\ \E m \in DOMAIN songs :
            /\ songs[m].song_id = results[r][k].song_id
            /\ songs[m].song_name = rec.row.song_name
            /\ songs[m].stanzas = rec.row.stanzas

NullOrEmpty(r, j) == Items(r)[j + 1].t = "null" \/ Items(r)[j + 1] = RecEmpty

C18_NullElementInvalid ==
  \A r \in Reqs :
    /\ \A j \in 0..(i[r] - 1) :
         NullOrEmpty(r, j) =>
           /\ Cardinality(EntriesFor(results[r], j)) = 1
           /\ \A k \in EntriesFor(results[r], j) :
                /\ results[r][k].status = "invalid"
                /\ results[r][k].reason = "Missing fields"
    /\ Aborted(r) => ~NullOrEmpty(r, i[r])

(***************************************************************************)
(* C20: the insert calls of one request partition the accepted list into   *)
(* consecutive chunks of at most BATCH records in input order; every       *)
(* accepted record is in exactly one call and an `invalid` or              *)
(* `skipped_conflict` record is in none.                                   *)
(***************************************************************************)
\* the indices of the records with an invalid or skipped outcome
Refused(r) ==
  {results[r][k].index :
     k \in {m \in DOMAIN results[r] :
              results[r][m].status \in {"invalid", "skipped_conflict"}}}

C20_ChunksPartitionAccepted ==
  \A r \in Reqs :
    LET n == Len(insertCalls[r])
        list == toInsert[r]
    IN  /\ \A c \in 1..n :
             LET call == insertCalls[r][c]
             IN  /\ Len(call) \in 1..BATCH
                 /\ c < n => Len(call) = BATCH
                 /\ (c - 1) * BATCH + Len(call) <= Len(list)
                 /\ call = SubSeq(list, (c - 1) * BATCH + 1, (c - 1) * BATCH + Len(call))
        /\ \A k \in 1..(Len(list) - 1) : list[k].index < list[k + 1].index
        /\ Refused(r) \cap Submitted(r) = {}
        /\ ProcessedResponse(r) =>
             IF n = 0 THEN list = <<>>
             ELSE (n - 1) * BATCH + Len(insertCalls[r][n]) = Len(list)

\* a payload of alternating valid and invalid records, submitted as one full
\* chunk and a last chunk of one record
C20_Witness ==
  \E r \in Reqs :
    /\ ProcessedResponse(r)
    /\ Len(insertCalls[r]) = 2
    /\ Len(insertCalls[r][1]) = BATCH /\ Len(insertCalls[r][2]) = 1
    /\ Cardinality(Refused(r)) = BATCH

(***************************************************************************)
(* C19: the sweep deletes a slide only when its presentation has no slide  *)
(* created within the last 48 hours: a presentation with one slide older   *)
(* and one slide newer than the cutoff keeps all its slides.               *)
(***************************************************************************)
\* the presentation of slide s has a slide created at or after the cutoff
HasRecentSlide(s) ==
  \E t \in presentations :
    /\ t.presentation_name = s.presentation_name
    /\ t.created_datetime >= twoDaysAgo["startup"]

C19_RecentGroupKept ==
  [][\A s \in presentations \ presentations' : ~HasRecentSlide(s)]_vars

(***************************************************************************)
(* C21: in every response that carries a summary, summary.requested is the *)
(* payload length, summary.created is the number of `created` results, and *)
(* created + skipped_conflict + invalid + failed = requested.              *)
(***************************************************************************)
C21_SummaryAddsUp ==
  \A r \in Reqs :
    ProcessedResponse(r) =>
      LET sm == response[r].summary
          rs == response[r].results
      IN  /\ sm.requested = Len(Items(r))
          /\ sm.created = CountStatus(rs, "created")
          /\ sm.skipped_conflict = CountStatus(rs, "skipped_conflict")
          /\ sm.invalid = CountStatus(rs, "invalid")
          /\ sm.failed = CountStatus(rs, "failed")
          /\ sm.created + sm.skipped_conflict + sm.invalid + sm.failed = sm.requested

\* a summary of three records: one failed, one skipped and one invalid
C21_Witness ==
  \E r \in Reqs :
    /\ ProcessedResponse(r)
    /\ response[r].summary.requested = 3
    /\ response[r].summary.failed = 1
    /\ response[r].summary.skipped_conflict = 1
    /\ response[r].summary.invalid = 1

(***************************************************************************)
(* C22: in strict mode, a record that is skipped_conflict because of a     *)
(* record of the same payload, and not because of a snapshot name, has an  *)
(* earlier near-duplicate record of that payload that ends `created`; no   *)
(* record is skipped in favour of a payload record that ends `failed`.     *)
(***************************************************************************)
\* the statuses the response gives input index j
StatusesOf(r, j) ==
  {response[r].results[k].status : k \in EntriesFor(response[r].results, j)}

\* index b is skipped in the response, and no snapshot name is near its name
SkippedForPayload(r, b) ==
  /\ ProcessedResponse(r)
  /\ b \in 0..(Len(Items(r)) - 1)
  /\ StatusesOf(r, b) = {"skipped_conflict"}
  /\ ~ConflictsWithSnapshot(r, b)

\* index a is an earlier record of the payload whose name is near that of b
EarlierNearDuplicate(r, a, b) ==
  /\ a < b
  /\ WellFormed(Items(r)[a + 1])
  /\ NearDuplicate(DeclaredName(Items(r)[a + 1]), DeclaredName(Items(r)[b + 1]),
                   similarity[r])

\* how the insert of the chunk holding index a ended
ReplyFor(r, a) ==
  LET k == CHOOSE n \in DOMAIN toInsert[r] : toInsert[r][n].index = a
  IN  insertReplies[r][((k - 1) \div BATCH) + 1]

C22_SkippedForCreated ==
  \A r \in Reqs :
    \A b \in 0..(Len(Items(r)) - 1) :
      SkippedForPayload(r, b) =>
        \E a \in 0..(b - 1) :
          /\ EarlierNearDuplicate(r, a, b)
          /\ StatusesOf(r, a) = {"created"}

(***************************************************************************)
(* C22, amended: such a record has an earlier near-duplicate record of the *)
(* payload that was accepted for insertion; that record ends `created`     *)
(* when the insert of its chunk succeeds and `failed` when it fails, and   *)
(* the skipped record stays skipped in both cases.                         *)
(***************************************************************************)
C22_SkippedForAccepted ==
  \A r \in Reqs :
    \A b \in 0..(Len(Items(r)) - 1) :
      SkippedForPayload(r, b) =>
        \E a \in 0..(b - 1) :
          /\ EarlierNearDuplicate(r, a, b)
          /\ a \in Submitted(r)
          /\ StatusesOf(r, a) =
               {IF ReplyFor(r, a) = "error" THEN "failed" ELSE "created"}

\* a record skipped in favour of a payload record whose insert failed
C22_Witness ==
  \E r \in Reqs :
    \E b \in 0..(Len(Items(r)) - 1) :
      /\ SkippedForPayload(r, b)
      /\ \E a \in 0..(b - 1) :
           /\ EarlierNearDuplicate(r, a, b)
           /\ StatusesOf(r, a) = {"failed"}

(***************************************************************************)
(* C23: after startup and after every completed sweep, whatever its        *)
(* outcome, exactly one next sweep is scheduled, with a positive delay,    *)
(* and two sweeps never run at the same time.                              *)
(***************************************************************************)
\* caller w is inside deleteOldPresentationsCompletely
Running(w) == sweepPc[w] \in {"awaitSelect", "awaitDelete"}

\* once started, one timeout is pending unless its own sweep is running
OneSweepPending ==
  sweepPc["startup"] # "idle" =>
    /\ Len(timers) <= 1
    /\ Len(timers) = 1 <=> ~Running("timer")

PositiveDelays == \A k \in DOMAIN timers : timers[k] > 0

NoTwoSweeps == ~(Running("startup") /\ Running("timer"))

C23_OneSweepAtATime == OneSweepPending /\ PositiveDelays /\ NoTwoSweeps

====
